---- MODULE Spec2Model ----
(***************************************************************************)
(* Model of the batch ETL pipeline of src/etl_pipeline.py and src/util.py: *)
(* check_and_create_partition (the partition manager), extract (the file   *)
(* parser), load_stg (the staging loader), incremental_load (the merge     *)
(* into curate) and __main__, which runs the three in a row.               *)
(*                                                                         *)
(* The database is the only state.  A text value is a sequence of          *)
(* one-character strings, so that str.strip and str.lower are computed     *)
(* and not assumed.  A date is a day number, as PostgreSQL stores it.      *)
(***************************************************************************)
EXTENDS Integers, Sequences, FiniteSets, TLC

\* ------------------------------------------------------------------ bounds
MaxRows == 2        \* rows of one batch
MaxCust == 2        \* customer ids 1..MaxCust
MaxDays == 1        \* days the clock advances during a behaviour
MaxLoads == 2       \* load_stg calls of one behaviour
FirstDay == 8826    \* CURRENT_DATE of the initial state: 2024-03-01, in days since 2000-01-01
MaxLines == 3       \* lines of the source file

\* the recency threshold of the merge's WHERE clause
Threshold == 30

\* ------------------------------------------------------------------ text
\* The country values the batches and the direct calls draw from:
\* " In ", "in", "In", "Us" and "S A" (a name with an interior blank).
Keys ==
    { <<" ", "I", "n", " ">>, <<"i", "n">>, <<"I", "n">>, <<"U", "s">>,
      <<"S", " ", "A">> }

\* the countries of batch rows, as the file holds them: " In ", "in", "Us"
Countries ==
    { <<" ", "I", "n", " ">>, <<"i", "n">>, <<"U", "s">> }

\* table_name of __main__ ('customer_info'), shortened
Table == <<"c", "i">>

Schemas == {"stg", "curate"}

\* the whitespace of the model's texts: the blank and the line end
IsSpace(c) == c = " " \/ c = "\n"

RECURSIVE LStrip(_)
LStrip(s) ==
    IF s # <<>> /\ IsSpace(Head(s)) THEN LStrip(Tail(s)) ELSE s

RECURSIVE RStrip(_)
RStrip(s) ==
    IF s # <<>> /\ IsSpace(s[Len(s)]) THEN RStrip(SubSeq(s, 1, Len(s) - 1)) ELSE s

\* str.strip()
Strip(s) == RStrip(LStrip(s))

LowerChar(c) ==
    CASE c = "I" -> "i"
      [] c = "S" -> "s"
      [] c = "U" -> "u"
      [] c = "A" -> "a"
      [] OTHER -> c

\* str.lower()
Lower(s) == [i \in 1..Len(s) |-> LowerChar(s[i])]

\* partition_name = f"{table_name}_{country.lower()}"
PartitionName(table_name, country) == table_name \o <<"_">> \o Lower(country)

\* ------------------------------------------------------------ the catalog
\* A partition of the parent table: its relation name and the one value of
\* its FOR VALUES IN (...) bound.  List bounds compare text exactly.
HasRelation(P, name) == \E p \in P : p.name = name

Accepts(P, country) == \E p \in P : p.bound = country

\* to_regclass reads its argument as an unquoted qualified name: a name with
\* a blank in it is no such name.  Servers before 16 raise "invalid name
\* syntax"; later ones answer NULL (soft = TRUE).
IsBareName(name) == \A i \in 1..Len(name) : name[i] # " "

ToRegclass(P, name, soft) ==
    IF ~IsBareName(name) THEN (IF soft THEN "null" ELSE "error")
    ELSE IF HasRelation(P, name) THEN "found"
    ELSE "null"

\* CREATE TABLE "schema"."partition_name" PARTITION OF ... FOR VALUES IN (country):
\* refused when the relation exists or the bound overlaps another partition.
CreateRefused(P, name, country) == HasRelation(P, name) \/ Accepts(P, country)

\* ------------------------------------------------- check_and_create_partition
\* None, the value pandas gives a cell its line has no field for; no text
\* equals it
None == <<"None">>

PartitionFaults == {"none", "connect", "cursor", "query", "create", "commit"}

\* the call once the name has been looked up
CheckAndCreateFound(P, country, name, found, fault) ==
    IF fault = "query" \/ found = "error"
      THEN [parts |-> P, ret |-> "False", create |-> FALSE]
    ELSE IF found = "found"
      THEN [parts |-> P, ret |-> "True", create |-> FALSE]
    ELSE IF fault = "create" \/ CreateRefused(P, name, country)
      THEN [parts |-> P, ret |-> "False", create |-> TRUE]
    ELSE IF fault = "commit"
      THEN [parts |-> P, ret |-> "False", create |-> TRUE]
    ELSE [parts |-> P \cup {[name |-> name, bound |-> country]},
          ret |-> "True", create |-> TRUE]

CheckAndCreateNamed(P, country, name, fault, soft) ==
    CheckAndCreateFound(P, country, name, ToRegclass(P, name, soft), fault)

\* One call on the partitions P of the target schema.  ret is "True",
\* "False" or "raise" (an exception leaves the function); create tells
\* whether the CREATE statement was sent.
\*   fault = "connect": create_engine/raw_connection raises; the handler's
\*     conn.rollback() meets an unbound local and raises in turn.
\*   fault = "cursor": conn.cursor() raises; the finally's cur.close() meets
\*     an unbound local and raises.
\*   fault = "query"/"create"/"commit": that statement raises; the handler
\*     rolls back and returns False.
\*   country is None: country.strip() raises (AttributeError); the same.
CheckAndCreatePartition(P, country, table_name, fault, soft) ==
    IF fault = "connect" \/ fault = "cursor"
      THEN [parts |-> P, ret |-> "raise", create |-> FALSE]
    ELSE IF country = None
      THEN [parts |-> P, ret |-> "False", create |-> FALSE]
    ELSE CheckAndCreateNamed(P, Strip(country),
                             PartitionName(table_name, Strip(country)), fault, soft)

\* ------------------------------------------------------------------ dates
\* A date is its day number since 2000-01-01.  CivilOf turns a day number
\* into year, month and day (the proleptic Gregorian calendar), which is
\* what AGE() works on.
CivilOf(n) ==
    LET z == n + 730425             \* days since 0000-03-01
        era == z \div 146097
        doe == z - era * 146097
        yoe == (doe - doe \div 1460 + doe \div 36524 - doe \div 146096) \div 365
        doy == doe - (365 * yoe + yoe \div 4 - yoe \div 100)
        mp == (5 * doy + 2) \div 153
        d == doy - (153 * mp + 2) \div 5 + 1
        m == IF mp < 10 THEN mp + 3 ELSE mp - 9
        y == yoe + era * 400 + (IF m <= 2 THEN 1 ELSE 0)
    IN  [y |-> y, m |-> m, d |-> d]

\* EXTRACT(YEAR FROM AGE(Date_of_Birth)): whole calendar years up to today
AgeYears(dob, now) ==
    LET a == CivilOf(dob)
        b == CivilOf(now)
        before == b.m < a.m \/ (b.m = a.m /\ b.d < a.d)
    IN  b.y - a.y - (IF before THEN 1 ELSE 0)

\* ------------------------------------------------------------------- rows
\* Last_Consulted_Date of batch rows: 30 and 40 days before FirstDay (the
\* first is 31 days back once the clock has advanced)
ConsultedDates == {FirstDay - 30, FirstDay - 40}

\* Date_of_Birth of batch rows (1990-03-02) and of rows already in curate
BatchBirth == FirstDay - 12418
OtherBirth == FirstDay - 7000

\* State stands for the columns the merge copies on insert and never updates
\* (Customer_Name, Customer_Open_Date, Vaccination_Type, Doctor_Consulted,
\* State, Post_Code, Active_Customer).
StgRows ==
    [Customer_ID : 1..MaxCust, Country : Countries,
     Last_Consulted_Date : ConsultedDates, State : {"s1"},
     Date_of_Birth : {BatchBirth}]

RowSeqs == UNION {[1..n -> StgRows] : n \in 0..MaxRows}

\* A batch is its header and its rows.  cols: the header has the ten columns
\* of the COPY list ("ok"), has an eleventh column ("extra"), or lacks
\* Country ("noCountry"; its rows play no part).
Batches ==
    [cols : {"ok", "extra"}, rows : RowSeqs]
        \cup [cols : {"noCountry"}, rows : {<<>>}]

\* data['Country'] = data['Country'].str.strip()
StripCountry(rows) ==
    [i \in 1..Len(rows) |-> [rows[i] EXCEPT !.Country = Strip(rows[i].Country)]]

\* ---------------------------------------------------------------- extract
\* the decimal text of a number, and the number of a decimal text
DigitChars == <<"0", "1", "2", "3", "4", "5", "6", "7", "8", "9">>

RECURSIVE Digits(_)
Digits(n) ==
    IF n < 10 THEN <<DigitChars[n + 1]>>
    ELSE Digits(n \div 10) \o <<DigitChars[(n % 10) + 1]>>

IsDigit(c) == \E k \in 1..10 : DigitChars[k] = c

DigitValue(c) == (CHOOSE k \in 1..10 : DigitChars[k] = c) - 1

RECURSIVE ParseInt(_)
ParseInt(t) ==
    IF Len(t) = 1 THEN DigitValue(t[1])
    ELSE 10 * ParseInt(SubSeq(t, 1, Len(t) - 1)) + DigitValue(t[Len(t)])

\* The columns of the COPY list the model's rows have, in the list's order
\* and by their initials: Customer_ID, Last_Consulted_Date, Country,
\* Date_of_Birth.
CopyColumns == << <<"I">>, <<"L">>, <<"C">>, <<"B">> >>

\* the same columns in another order
OtherColumns == << <<"I">>, <<"C">>, <<"L">>, <<"B">> >>

\* data['Country']
CountryColumn == <<"C">>

RECURSIVE JoinFields(_)
JoinFields(fields) ==
    IF fields = <<>> THEN <<>>
    ELSE <<"|">> \o Head(fields) \o JoinFields(Tail(fields))

\* a line of the source file: its tag, its fields behind a "|" each, the
\* line end
Line(tag, fields) == <<tag>> \o JoinFields(fields) \o <<"\n">>

\* The lines the files are made of: the header in the COPY list's order and
\* in another order; data rows of customer 1 (country " Us ", consulted 35
\* days before FirstDay) and customer 2 (a blank country, 40 days); a data
\* row of one field; a line that is neither header nor data.
FileLines ==
    { Line("H", CopyColumns),
      Line("H", OtherColumns),
      Line("D", <<Digits(1), Digits(FirstDay - 35), <<" ", "U", "s", " ">>,
                  Digits(OtherBirth)>>),
      Line("D", <<Digits(2), Digits(FirstDay - 40), <<" ">>, Digits(OtherBirth)>>),
      Line("D", <<Digits(2)>>),
      Line("T", <<Digits(1)>>) }

Files == UNION {[1..n -> FileLines] : n \in 0..MaxLines}

\* line.startswith(prefix)
StartsWith(line, prefix) ==
    Len(line) >= Len(prefix) /\ SubSeq(line, 1, Len(prefix)) = prefix

\* str.split(sep)
RECURSIVE Split(_, _)
Split(s, sep) ==
    IF \A i \in 1..Len(s) : s[i] # sep THEN <<s>>
    ELSE LET k == CHOOSE i \in 1..Len(s) :
                      s[i] = sep /\ \A j \in 1..(i - 1) : s[j] # sep
         IN  <<SubSeq(s, 1, k - 1)>> \o Split(SubSeq(s, k + 1, Len(s)), sep)

\* line.strip().split('|')[1:]
Fields(line) == Tail(Split(Strip(line), "|"))

\* the mutant: the first header line of the file stays the header
RECURSIVE ReadLinesFirstHeader(_, _, _, _)
ReadLinesFirstHeader(lines, i, header_line, data_rows) ==
    IF i > Len(lines)
      THEN [header_line |-> header_line, data_rows |-> data_rows]
    ELSE IF StartsWith(lines[i], <<"H", "|">>)
      THEN ReadLinesFirstHeader(lines, i + 1,
               IF header_line = <<>> THEN Fields(lines[i]) ELSE header_line,
               data_rows)
    ELSE IF StartsWith(lines[i], <<"D", "|">>)
      THEN ReadLinesFirstHeader(lines, i + 1, header_line,
                                Append(data_rows, Fields(lines[i])))
    ELSE ReadLinesFirstHeader(lines, i + 1, header_line, data_rows)

\* for line in lines: ...  header_line = None is <<>> here (the fields of a
\* line that starts with "H|" are never none)
RECURSIVE ReadLines(_, _, _, _)
ReadLines(lines, i, header_line, data_rows) ==
    IF i > Len(lines)
      THEN [header_line |-> header_line, data_rows |-> data_rows]
    ELSE IF StartsWith(lines[i], <<"H", "|">>)
      THEN ReadLines(lines, i + 1, Fields(lines[i]), data_rows)
    ELSE IF StartsWith(lines[i], <<"D", "|">>)
      THEN ReadLines(lines, i + 1, header_line,
                     Append(data_rows, Fields(lines[i])))
    ELSE ReadLines(lines, i + 1, header_line, data_rows)

\* the longest of the rows
RECURSIVE Width(_)
Width(data_rows) ==
    IF data_rows = <<>> THEN 0
    ELSE LET w == Width(Tail(data_rows))
         IN  IF Len(Head(data_rows)) > w THEN Len(Head(data_rows)) ELSE w

Pad(row, n) == [k \in 1..n |-> IF k <= Len(row) THEN row[k] ELSE None]

\* what extract hands back when it raises
NoData == [columns |-> <<>>, rows |-> <<>>]

\* pd.DataFrame(data_rows, columns=header_line): the rows are laid out as
\* wide as the longest of them, shorter ones filled with None; that width
\* must be the number of columns (ValueError).  No rows: an empty frame.
DataFrame(data_rows, columns) ==
    IF data_rows # <<>> /\ Width(data_rows) # Len(columns)
      THEN [ret |-> "raise", data |-> NoData]
    ELSE [ret |-> "ok",
          data |-> [columns |-> columns,
                    rows |-> [i \in 1..Len(data_rows) |->
                                 Pad(data_rows[i], Len(columns))]]]

ExtractFaults == {"none", "open", "write"}

\* the mutant: the frame is built whether or not a header was found
ExtractParsedNoCheck(r, fault) ==
    IF r.header_line = <<>>
      THEN [ret |-> "ok", data |-> [columns |-> <<>>, rows |-> <<>>]]
    ELSE IF fault = "write" THEN [ret |-> "raise", data |-> NoData]
    ELSE DataFrame(r.data_rows, r.header_line)

\* extract from "if not header_line" on
\*   fault = "write": data.to_csv('trans/data.csv') raises
ExtractParsed(r, fault) ==
    IF r.header_line = <<>> THEN [ret |-> "raise", data |-> NoData]
    ELSE IF fault = "write" THEN [ret |-> "raise", data |-> NoData]
    ELSE DataFrame(r.data_rows, r.header_line)

\* extract(source) on a file of these lines: ret is "ok" or "raise" (the
\* handler logs and raises again)
\*   fault = "open": open(source) or readlines raises
Extract(lines, fault) ==
    IF fault = "open" THEN [ret |-> "raise", data |-> NoData]
    ELSE ExtractParsed(ReadLines(lines, 1, <<>>, <<>>), fault)

\* the place of a column in the frame, 0 when it has none of the name
ColumnOf(columns, name) ==
    IF \E k \in 1..Len(columns) : columns[k] = name
      THEN CHOOSE k \in 1..Len(columns) : columns[k] = name
    ELSE 0

\* what COPY stores of a cell in a numeric or date column
Number(t) ==
    IF t # <<>> /\ \A k \in 1..Len(t) : IsDigit(t[k]) THEN ParseInt(t) ELSE 0

\* The frame as load_stg and its COPY read it: Country by its name; the
\* lines of data.to_csv hold the cells in the frame's order, which COPY
\* takes for the order of its list, so that a frame of another order or
\* width is one COPY does not accept (cols "extra").  The columns the files
\* here leave out are the same in every row (State).
BatchOf(data) ==
    IF ColumnOf(data.columns, CountryColumn) = 0
      THEN [cols |-> "noCountry", rows |-> <<>>]
    ELSE [cols |-> IF data.columns = CopyColumns THEN "ok" ELSE "extra",
          rows |-> [i \in 1..Len(data.rows) |->
              [Customer_ID |->
                   IF ColumnOf(data.columns, <<"I">>) = 0 THEN 0
                   ELSE Number(data.rows[i][ColumnOf(data.columns, <<"I">>)]),
               Country |-> data.rows[i][ColumnOf(data.columns, CountryColumn)],
               Last_Consulted_Date |->
                   IF ColumnOf(data.columns, <<"L">>) = 0 THEN 0
                   ELSE Number(data.rows[i][ColumnOf(data.columns, <<"L">>)]),
               State |-> "s1",
               Date_of_Birth |->
                   IF ColumnOf(data.columns, <<"B">>) = 0 THEN 0
                   ELSE Number(data.rows[i][ColumnOf(data.columns, <<"B">>)])]]]

\* ---------------------------------------------------------------- load_stg
\* for country in unique_countries: check_and_create_partition(...)
\* The loop walks the whole column (one call per row); the return value of
\* a call is not looked at, an exception ends the loop.  With hit, call
\* f.at meets the database fault f.kind.
RECURSIVE EnsurePartitions(_, _, _, _, _, _)
EnsurePartitions(P, rows, i, hit, f, soft) ==
    IF i > Len(rows) THEN [parts |-> P, raised |-> FALSE]
    ELSE LET r == CheckAndCreatePartition(P, rows[i].Country, Table,
                      IF hit /\ i = f.at THEN f.kind ELSE "none", soft)
         IN  IF r.ret = "raise" THEN [parts |-> r.parts, raised |-> TRUE]
             ELSE EnsurePartitions(r.parts, rows, i + 1, hit, f, soft)

\* COPY ... FROM STDIN: every row must find a partition of the staging
\* table and the line must have the ten columns of the list.  An empty
\* country is an empty field of the line data.to_csv writes, which WITH CSV
\* reads as NULL, as it does the field of a None: no partition takes it.
CopyAccepted(P, batch) ==
    \A i \in 1..Len(batch.rows) :
        /\ batch.cols = "ok"
        /\ batch.rows[i].Country # <<>>
        /\ Accepts(P, batch.rows[i].Country)

\* the mutant: the COPY runs without the DELETE before it
ReplaceStagingNoDelete(old, P, batch, fault) ==
    IF fault = "delete" THEN [stg |-> old, ret |-> "raise"]
    ELSE IF fault = "copy" \/ fault = "commit" \/ ~CopyAccepted(P, batch)
      THEN [stg |-> old, ret |-> "raise"]
    ELSE [stg |-> old \o batch.rows, ret |-> "ok"]

\* DELETE FROM stg; commit; COPY; commit.  The DELETE is committed on its
\* own, so a COPY (or second commit) that fails leaves the table empty.
ReplaceStaging(old, P, batch, fault) ==
    IF fault = "delete" THEN [stg |-> old, ret |-> "raise"]
    ELSE IF fault = "copy" \/ fault = "commit" \/ ~CopyAccepted(P, batch)
      THEN [stg |-> <<>>, ret |-> "raise"]
    ELSE [stg |-> batch.rows, ret |-> "ok"]

\* where a database fault hits one load_stg call: nowhere, the connection
\* or the first cursor of load_stg itself ("load"), call `at` of the
\* partition loop over one
\* schema, or the DELETE/COPY/commit block ("replace")
LoadFaults ==
    {[where |-> "none", at |-> 0, kind |-> "none"],
     [where |-> "load", at |-> 0, kind |-> "connect"],
     [where |-> "load", at |-> 0, kind |-> "cursor"]}
        \cup [where : {"stg", "curate"}, at : 1..MaxRows, kind : {"connect", "create"}]
        \cup [where : {"replace"}, at : {0}, kind : {"delete", "copy", "commit"}]

\* every country of the rows has a partition relation in both schemas
Covered(P, table_name, rows) ==
    \A i \in 1..Len(rows) : \A s \in Schemas :
        HasRelation(P[s], PartitionName(table_name, rows[i].Country))

\* load_stg from "with conn.cursor() as cur" on: P is the catalog after the
\* partition loops, r the outcome of the DELETE/COPY block
LoadStgEnd(P, r, rows) ==
    [parts |-> P, stg |-> r.stg, ret |-> r.ret, reached |-> TRUE,
     covered |-> Covered(P, Table, rows), rows |-> rows]

LoadStgRaise(P, old, rows) ==
    [parts |-> P, stg |-> old, ret |-> "raise", reached |-> FALSE,
     covered |-> FALSE, rows |-> rows]

\* the loop over the curate schema, then the rest
LoadStgCurate(P, b, old, cols, rows, f) ==
    IF b.raised THEN LoadStgRaise([P EXCEPT !["curate"] = b.parts], old, rows)
    ELSE LoadStgEnd([P EXCEPT !["curate"] = b.parts],
                    ReplaceStaging(old, P["stg"], [cols |-> cols, rows |-> rows],
                                   IF f.where = "replace" THEN f.kind ELSE "none"),
                    rows)

\* the loop over the staging schema, then the rest
LoadStgStaging(P, a, old, cols, rows, f, soft) ==
    IF a.raised THEN LoadStgRaise([P EXCEPT !["stg"] = a.parts], old, rows)
    ELSE LoadStgCurate([P EXCEPT !["stg"] = a.parts],
                       EnsurePartitions(P["curate"], rows, 1, "curate" = f.where, f, soft),
                       old, cols, rows, f)

\* the body of load_stg once data['Country'] is stripped
LoadStgRows(P, old, cols, rows, f, soft) ==
    LoadStgStaging(P, EnsurePartitions(P["stg"], rows, 1, "stg" = f.where, f, soft),
                   old, cols, rows, f, soft)

\* One load_stg call on the catalog P and the staging rows old.
\*   ret: "ok" or "raise"; reached: the DELETE was reached; covered: Covered
\*   held when it was; rows: the batch as the call leaves it.
\* A connection that cannot be opened and a header without Country (the
\* KeyError of data['Country']) end the call before anything is done.
LoadStg(P, old, batch, f, soft) ==
    IF f.where = "load" \/ batch.cols = "noCountry"
      THEN LoadStgRaise(P, old, batch.rows)
    ELSE LoadStgRows(P, old, batch.cols, StripCountry(batch.rows), f, soft)

\* -------------------------------------------------------- incremental_load
CurateRow(r, now) ==
    [Customer_ID |-> r.Customer_ID, Country |-> r.Country,
     Last_Consulted_Date |-> r.Last_Consulted_Date, State |-> r.State,
     Date_of_Birth |-> r.Date_of_Birth,
     Age |-> AgeYears(r.Date_of_Birth, now),
     Days_since_last_consulted |-> now - r.Last_Consulted_Date]

\* the mutant: the threshold day itself passes
EligibleFromThreshold(rows, now) ==
    {i \in DOMAIN rows : now - rows[i].Last_Consulted_Date >= Threshold}

\* WHERE CURRENT_DATE - Last_Consulted_Date > 30
Eligible(rows, now) ==
    {i \in DOMAIN rows : now - rows[i].Last_Consulted_Date > Threshold}

\* the mutant: the window orders by Last_Consulted_Date ascending
LatestAscending(rows, now) ==
    {i \in Eligible(rows, now) :
        \A j \in Eligible(rows, now) :
            rows[j].Customer_ID = rows[i].Customer_ID
                => rows[j].Last_Consulted_Date >= rows[i].Last_Consulted_Date}

\* The rows ROW_NUMBER() OVER (PARTITION BY Customer_ID ORDER BY
\* Last_Consulted_Date DESC) can number 1: the eligible rows no eligible row
\* of the same customer is later than.
Latest(rows, now) ==
    {i \in Eligible(rows, now) :
        \A j \in Eligible(rows, now) :
            rows[j].Customer_ID = rows[i].Customer_ID
                => rows[j].Last_Consulted_Date <= rows[i].Last_Consulted_Date}

\* the mutant: no "WHERE rn = 1"; every eligible row goes on
CandidatesAllEligible(rows, now) == {Eligible(rows, now)}

\* WHERE rn = 1: one row per customer.  Rows that tie on the date are
\* numbered in an order the statement does not fix, so each choice among
\* them is a possible result.
Candidates(rows, now) ==
    {S \in SUBSET Latest(rows, now) :
        \A i \in Latest(rows, now) :
            Cardinality({j \in S : rows[j].Customer_ID = rows[i].Customer_ID}) = 1}

SameKey(a, b) == a.Customer_ID = b.Customer_ID /\ a.Country = b.Country

\* the mutant: on conflict the whole row is replaced by the staged one
UpsertFullRow(cur, news) ==
    {n \in news : TRUE}
        \cup {c \in cur : ~\E n \in news : SameKey(c, n)}

\* INSERT ... ON CONFLICT (Customer_ID, Country) DO UPDATE SET
\*   Last_Consulted_Date, Age, Days_since_last_consulted = EXCLUDED....
\* news: the rows to insert, no two with the same key.
Upsert(cur, news) ==
    {IF \E n \in news : SameKey(c, n)
        THEN LET n == CHOOSE x \in news : SameKey(c, x)
             IN  [c EXCEPT !.Last_Consulted_Date = n.Last_Consulted_Date,
                           !.Age = n.Age,
                           !.Days_since_last_consulted = n.Days_since_last_consulted]
        ELSE c : c \in cur}
        \cup {n \in news : ~\E c \in cur : SameKey(c, n)}

MergeFaults == {"none", "connect", "execute"}

\* The statement of incremental_load on the curate rows cur, with the rows
\* S of staging numbered 1.  It fails as a whole when a row finds no
\* partition of the curate table.
\*   news: the rows "WHERE rn = 1" hands to the INSERT; written: the rows
\*   the statement had written when it ended (an error undoes them: tx).
MergeStatement(cur, P, rows, now, S, fault) ==
    LET news == {CurateRow(rows[i], now) : i \in S}
    IN  IF fault # "none"
          THEN [tx |-> cur, ret |-> "raise", news |-> news, written |-> cur]
        ELSE IF \E n \in news : ~Accepts(P, n.Country)
          THEN [tx |-> cur, ret |-> "raise", news |-> news,
                written |-> Upsert(cur, {n \in news : Accepts(P, n.Country)})]
        ELSE [tx |-> Upsert(cur, news), ret |-> "ok", news |-> news,
              written |-> Upsert(cur, news)]

\* the mutant: the block commits before the connection is given back
CloseConnectionCommit(cur, t) == t

\* "with engine.connect() as conn" ends: nothing has committed the
\* transaction of conn.execute, and closing the connection rolls it back.
CloseConnection(cur, t) == cur

\* the mutant: what the statement wrote before its error stays
IncrementalFailedKeepsWritten(cur, r) == r.written

\* conn.execute raised: the error leaves the with block, which closes the
\* connection, and the handler logs it and raises it again.  The committed
\* rows of curate after that.
IncrementalFailed(cur, r) == CloseConnection(cur, r.tx)

\* -------------------------------------------------------------- resources
\* How a call leaves its connection and cursor.  open: the handles it got
\* and did not close; error: "none" (it ended as its body decided), or
\* "unbound": the UnboundLocalError of a handler or a finally that names a
\* connection or cursor the try never bound.
\* check_and_create_partition: except ... conn.rollback(); finally:
\* cur.close(); conn.close()
PartitionRelease(fault) ==
    IF fault = "connect" THEN [open |-> {}, error |-> "unbound"]
    ELSE IF fault = "cursor" THEN [open |-> {"conn"}, error |-> "unbound"]
    ELSE [open |-> {}, error |-> "none"]

\* load_stg: finally: cur.close(); conn.close().  The cursor of line 47 is
\* dropped when "with conn.cursor() as cur" binds the name again.
LoadStgRelease(f) ==
    IF f.where = "load" /\ f.kind = "connect"
      THEN [open |-> {}, error |-> "unbound"]
    ELSE IF f.where = "load" /\ f.kind = "cursor"
      THEN [open |-> {"conn"}, error |-> "unbound"]
    ELSE [open |-> {}, error |-> "none"]


\* ------------------------------------------------------------------ state
VARIABLES
    parts,      \* schema -> the partitions of the table in it
    stg,        \* the committed rows of stg.customer_info, in heap order
    curate,     \* the committed rows of curate.customer_info
    today,      \* CURRENT_DATE
    server16,   \* the server is PostgreSQL 16 or later
    pc,         \* "idle", or "merged": incremental_load after conn.execute
    tx,         \* curate as the open transaction of incremental_load sees it
    loads,      \* the load_stg calls made
    loaded,     \* the batch of the latest load_stg that returned normally
    last,       \* the call that returned last
    cand,       \* the rows the latest merge statement handed to its INSERT
    step,       \* where __main__ is: "off" (not started), "main", "extracted",
                \* "staged", "done", "aborted"
    file,       \* the lines of the source file of __main__
    data        \* what extract returned to __main__

vars == <<parts, stg, curate, today, server16, pc, tx, loads, loaded, last,
          cand, step, file, data>>

\* the variables of __main__
main == <<step, file, data>>

\* The record of a call.  again: the call before it was the same operation
\* and returned normally; for a partition call: it had the same schema and
\* the same normalized key and met no database fault (prevKey is its key,
\* prevRet what it returned).
\* reached, covered, whole: load_stg reached its DELETE, Covered held then,
\* staging now holds the call's whole batch.
\* open, error: see PartitionRelease.
Call(op, ret, again) ==
    [op |-> op, ret |-> ret, schema |-> "", key |-> <<>>, create |-> FALSE,
     fault |-> "none", again |-> again, prevKey |-> <<>>, prevRet |-> "",
     reached |-> FALSE, covered |-> FALSE, whole |-> FALSE,
     open |-> {}, error |-> "none"]

\* rows curate may hold when the pipeline starts
SeedRows ==
    {[Customer_ID |-> 1, Country |-> <<"I", "n">>,
      Last_Consulted_Date |-> FirstDay - 35, State |-> "s0",
      Date_of_Birth |-> OtherBirth, Age |-> 19,
      Days_since_last_consulted |-> 35]}

PartitionsFor(table_name, rows) ==
    {[name |-> PartitionName(table_name, r.Country), bound |-> r.Country] : r \in rows}

Init ==
    /\ curate \in SUBSET SeedRows
    /\ parts = [s \in Schemas |->
                    IF s = "curate" THEN PartitionsFor(Table, curate) ELSE {}]
    /\ stg = <<>>
    /\ today = FirstDay
    /\ server16 \in BOOLEAN
    /\ pc = "idle"
    /\ tx = {}
    /\ loads = 0
    /\ loaded = <<>>
    /\ last = Call("none", "ok", FALSE)
    /\ cand = {}
    /\ step = "off"
    /\ file = <<>>
    /\ data = NoData

\* trimmed and case-folded
Normalized(key) == Lower(Strip(key))

SameTarget(key, schema) ==
    /\ last.op = "partition" /\ last.schema = schema
    /\ last.ret # "raise" /\ last.fault = "none"
    /\ Normalized(last.key) = Normalized(key)

\* a direct call check_and_create_partition(key, db_uri, table_name, schema)
EnsurePartition(key, schema, fault) ==
    /\ pc = "idle"
    /\ \E r \in {CheckAndCreatePartition(parts[schema], key, Table, fault, server16)} :
           /\ parts' = [parts EXCEPT ![schema] = r.parts]
           /\ last' = [Call("partition", r.ret, SameTarget(key, schema))
                         EXCEPT !.schema = schema, !.key = key,
                                !.create = r.create, !.fault = fault,
                                !.prevKey = IF SameTarget(key, schema)
                                              THEN last.key ELSE <<>>,
                                !.prevRet = IF SameTarget(key, schema)
                                              THEN last.ret ELSE "",
                                !.open = PartitionRelease(fault).open,
                                !.error = PartitionRelease(fault).error]
    /\ UNCHANGED <<stg, curate, today, server16, pc, tx, loads, loaded, cand>>

\* a call load_stg(data, table_name, db_uri, 'stg')
LoadStgCall(batch, f) ==
    /\ pc = "idle"
    /\ loads < MaxLoads
    /\ loads' = loads + 1
    /\ \E r \in {LoadStg(parts, stg, batch, f, server16)} :
           /\ parts' = r.parts
           /\ stg' = r.stg
           /\ loaded' = IF r.ret = "ok" THEN r.rows ELSE loaded
           /\ last' = [Call("load_stg", r.ret,
                            last.op = "load_stg" /\ last.ret = "ok")
                         EXCEPT !.reached = r.reached, !.covered = r.covered,
                                !.whole = (r.stg = r.rows),
                                !.open = LoadStgRelease(f).open,
                                !.error = LoadStgRelease(f).error]
    /\ UNCHANGED <<curate, today, server16, pc, tx, cand>>

\* incremental_load up to the end of conn.execute, the rows S numbered 1
IncrementalExecute(S, fault) ==
    /\ pc = "idle"
    /\ IF fault = "connect"
         THEN /\ last' = Call("incremental_load", "raise", FALSE)
              /\ cand' = {}
              /\ UNCHANGED <<pc, tx, curate>>
         ELSE \E r \in {MergeStatement(curate, parts["curate"], stg, today, S, fault)} :
                  /\ tx' = r.tx
                  /\ cand' = r.news
                  /\ pc' = IF r.ret = "ok" THEN "merged" ELSE "idle"
                  /\ curate' = IF r.ret = "ok" THEN curate
                               ELSE IncrementalFailed(curate, r)
                  /\ last' = IF r.ret = "ok" THEN last
                             ELSE Call("incremental_load", "raise", FALSE)
    /\ UNCHANGED <<parts, stg, today, server16, loads, loaded>>

\* the with block of incremental_load ends and the function returns
IncrementalClose ==
    /\ pc = "merged"
    /\ curate' = CloseConnection(curate, tx)
    /\ last' = Call("incremental_load", "ok",
                    last.op = "incremental_load" /\ last.ret = "ok")
    /\ pc' = "idle"
    /\ cand' = {}
    /\ UNCHANGED <<parts, stg, today, server16, tx, loads, loaded>>

\* midnight passes
Tick ==
    /\ pc = "idle"
    /\ today < FirstDay + MaxDays
    /\ today' = today + 1
    /\ last' = Call("tick", "ok", FALSE)
    /\ UNCHANGED <<parts, stg, curate, server16, pc, tx, loads, loaded, cand>>

\* __main__ starts on a source file
MainStart(lines) ==
    /\ step = "off" /\ pc = "idle" /\ loads = 0 /\ last.op = "none"
    /\ step' = "main"
    /\ file' = lines
    /\ UNCHANGED <<parts, stg, curate, today, server16, pc, tx, loads, loaded,
                   last, cand, data>>

\* extracted_data = pipeline.extract(source); an exception ends the process
MainExtract(fault) ==
    /\ step = "main"
    /\ \E r \in {Extract(file, fault)} :
           /\ data' = r.data
           /\ step' = IF r.ret = "ok" THEN "extracted" ELSE "aborted"
           /\ last' = [Call("extract", r.ret, FALSE) EXCEPT !.fault = fault]
    /\ UNCHANGED <<parts, stg, curate, today, server16, pc, tx, loads, loaded,
                   cand, file>>

\* pipeline.load_stg(extracted_data, 'customer_info', db_uri, 'stg')
MainLoadStg(f) ==
    /\ step = "extracted"
    /\ LoadStgCall(BatchOf(data), f)
    /\ step' = IF last'.ret = "ok" THEN "staged" ELSE "aborted"
    /\ UNCHANGED <<file, data>>

\* pipeline.incremental_load(db_uri, 'stg', 'customer_info'), up to the end
\* of conn.execute
MainIncremental(S, fault) ==
    /\ step = "staged"
    /\ IncrementalExecute(S, fault)
    /\ step' = IF pc' = "merged" THEN "staged" ELSE "aborted"
    /\ UNCHANGED <<file, data>>

\* incremental_load returns and the process ends
MainReturn ==
    /\ step = "staged"
    /\ IncrementalClose
    /\ step' = "done"
    /\ UNCHANGED <<file, data>>

\* -------------------------------------------------------- specifications
\* the partition manager called on its own
NextPartition ==
    /\ \E key \in Keys, schema \in Schemas, fault \in PartitionFaults :
           EnsurePartition(key, schema, fault)
    /\ UNCHANGED main

SpecPartition == Init /\ [][NextPartition]_vars

\* the staging loader called again and again; load_stg reads no date, and
\* its batches here carry one
LoadBatches ==
    {b \in Batches :
        \A i \in 1..Len(b.rows) : b.rows[i].Last_Consulted_Date = FirstDay - 40}

NextLoad ==
    /\ \E batch \in LoadBatches, f \in LoadFaults : LoadStgCall(batch, f)
    /\ UNCHANGED main

SpecLoad == Init /\ [][NextLoad]_vars

\* the merge, run on what one load_stg call has staged
InitMerge ==
    /\ curate \in SUBSET SeedRows
    /\ today = FirstDay
    /\ server16 \in BOOLEAN
    /\ pc = "idle"
    /\ tx = {}
    /\ cand = {}
    /\ step = "off"
    /\ file = <<>>
    /\ data = NoData
    /\ loads = 1
    /\ \E batch \in Batches, f \in LoadFaults :
          \E r \in {LoadStg([s \in Schemas |->
                                IF s = "curate" THEN PartitionsFor(Table, curate) ELSE {}],
                             <<>>, batch, f, server16)} :
              /\ r.ret = "ok"
              /\ parts = r.parts
              /\ stg = r.stg
              /\ loaded = r.rows
              /\ last = [Call("load_stg", "ok", FALSE)
                           EXCEPT !.reached = TRUE, !.covered = r.covered,
                                  !.whole = (r.stg = r.rows)]

NextMerge ==
    /\ \/ \E S \in Candidates(stg, today), fault \in MergeFaults :
             IncrementalExecute(S, fault)
       \/ IncrementalClose
       \/ Tick
    /\ UNCHANGED main

SpecMerge == InitMerge /\ [][NextMerge]_vars

\* one run of __main__: extract, load_stg, incremental_load
NextMain ==
    \/ \E lines \in Files : MainStart(lines)
    \/ \E fault \in ExtractFaults : MainExtract(fault)
    \/ \E f \in LoadFaults : MainLoadStg(f)
    \/ \E S \in Candidates(stg, today), fault \in MergeFaults :
          MainIncremental(S, fault)
    \/ MainReturn

SpecMain == Init /\ [][NextMain]_vars

\* every operation, in any order
Next == NextPartition \/ NextLoad \/ NextMerge \/ NextMain

Spec == Init /\ [][Next]_vars

\* ------------------------------------------------------------------ claims
\* the partition relations of a schema a key resolves to
PartitionsOf(schema, key) ==
    {p \in parts[schema] : p.name = PartitionName(Table, Strip(key))}

\* the staged rows of customer c that pass the recency threshold today
EligibleOf(c) ==
    {i \in DOMAIN stg :
        /\ stg[i].Customer_ID = c
        /\ today - stg[i].Last_Consulted_Date > 30}

\* the curate rows the open transaction has inserted or changed
Upserted == tx \ curate

\* C1: once a load_stg call has returned normally, the staging table holds
\* exactly the rows of that call's batch (Country stripped, as the call
\* leaves the batch), in the batch's order: no row of an earlier batch is
\* left and none of this batch is missing.
C1_StagingIsLatestBatch ==
    (last.op = "load_stg" /\ last.ret = "ok") => stg = loaded

\* C1 witness: a second load_stg in a row has returned normally with rows
C1_Witness ==
    /\ last.op = "load_stg" /\ last.ret = "ok" /\ last.again
    /\ loads = 2 /\ Len(stg) = 1

\* C2: a load_stg call that fails leaves the committed staging rows as they
\* were before the call, or as the complete new batch.
C2_FailedLoadLeavesNoPartialState ==
    [][(loads' = loads + 1 /\ last'.ret = "raise")
          => (stg' = stg \/ last'.whole)]_vars

\* C3: of two check_and_create_partition calls in a row for the same schema
\* and the same normalized key, neither meeting a database fault, the second
\* returns True, sends no CREATE, and leaves exactly one partition for the key.
C3_SecondCallIsNoOp ==
    (last.op = "partition" /\ last.again /\ last.fault = "none")
        => /\ last.ret = "True"
           /\ ~last.create
           /\ Cardinality(PartitionsOf(last.schema, last.key)) = 1

\* C4: once check_and_create_partition has returned True for two keys that
\* differ only in letter case or surrounding blanks, the schema has exactly
\* one partition for them, and it takes the rows of either key's country.
C4_VariantsShareOnePartition ==
    (last.op = "partition" /\ last.again
        /\ last.ret = "True" /\ last.prevRet = "True")
        => /\ Cardinality(PartitionsOf(last.schema, last.key)) = 1
           /\ Accepts(PartitionsOf(last.schema, last.key), Strip(last.key))
           /\ Accepts(PartitionsOf(last.schema, last.key), Strip(last.prevKey))

\* C5: check_and_create_partition never lets an exception out: whatever
\* database step fails, it returns False.
C5_PartitionCallNeverRaises ==
    last.op = "partition" => last.ret # "raise"

C8_SecondMergeChangesNothing ==
    [][/\ (pc = "merged" /\ pc' = "idle"
            /\ last.op = "incremental_load" /\ last.ret = "ok")
            => curate' = curate
       /\ (pc = "idle" /\ pc' = "merged")
            => \E S \in Candidates(stg, today) :
                  /\ MergeStatement(curate, parts["curate"], stg, today, S, "none").tx = tx'
                  /\ MergeStatement(tx', parts["curate"], stg, today, S, "none").tx = tx'
      ]_vars

\* C8 witness: two runs in a row have returned, with eligible rows staged
C8_Witness ==
    /\ last.op = "incremental_load" /\ last.ret = "ok" /\ last.again
    /\ pc = "idle"
    /\ \E c \in 1..MaxCust : EligibleOf(c) # {}

\* C9: the merge statement changes of an existing curate row nothing but
\* Last_Consulted_Date, Age and Days_since_last_consulted, and leaves a
\* curate row no eligible staged row has the key of as it is.
C9_UpdateTouchesThreeColumns ==
    pc = "merged" =>
        \A c \in curate :
            /\ \E t \in tx :
                  /\ SameKey(t, c)
                  /\ t.State = c.State
                  /\ t.Date_of_Birth = c.Date_of_Birth
            /\ (\A i \in EligibleOf(c.Customer_ID) : stg[i].Country # c.Country)
                  => c \in tx
            /\ Cardinality({t \in tx : SameKey(t, c)}) = 1

\* C9 witness: a curate row has been updated from a staged row of its key
\* whose other columns differ
C9_Witness ==
    /\ pc = "merged"
    /\ \E c \in curate : \E i \in DOMAIN stg :
          /\ c \notin tx
          /\ stg[i].Customer_ID = c.Customer_ID /\ stg[i].Country = c.Country
          /\ stg[i].State # c.State

\* C10: when load_stg reaches its DELETE, every country of the batch has a
\* partition in the staging schema and in the curate schema.
C10_PartitionsBeforeReplace ==
    (last.op = "load_stg" /\ last.reached) => last.covered

\* the places of the lines of a file that start with "H|", with "D|"
HeaderLines(lines) ==
    {i \in DOMAIN lines : StartsWith(lines[i], <<"H", "|">>)}

DataLines(lines) ==
    {i \in DOMAIN lines : StartsWith(lines[i], <<"D", "|">>)}

\* the place in the file of the k-th line that starts with "D|"
DataLine(lines, k) ==
    CHOOSE i \in DataLines(lines) :
        Cardinality({j \in DataLines(lines) : j <= i}) = k

\* the fields of the last line that starts with "H|"
LastHeader(lines) ==
    Fields(lines[CHOOSE i \in HeaderLines(lines) :
                     \A j \in HeaderLines(lines) : j <= i])

\* the file of the end-to-end scenario: the header and one data row,
\* customer 1, country " Us ", consulted 35 days before FirstDay
ScenarioFile ==
    << Line("H", CopyColumns),
       Line("D", <<Digits(1), Digits(FirstDay - 35), <<" ", "U", "s", " ">>,
                   Digits(OtherBirth)>>) >>

\* the curate rows of the scenario's key
ScenarioRows ==
    {c \in curate : c.Customer_ID = 1 /\ c.Country = <<"U", "s">>}

\* C11: once __main__ has run extract, load_stg and incremental_load to the
\* end on the scenario's file (the day being FirstDay), the committed curate
\* table holds exactly one row of the key (1, "Us"): consulted 35 days ago,
\* the age that of the date of birth.
C11_ScenarioRowIsDurable ==
    (step = "done" /\ file = ScenarioFile) =>
        /\ Cardinality(ScenarioRows) = 1
        /\ \A c \in ScenarioRows :
              /\ c.Days_since_last_consulted = 35
              /\ c.Last_Consulted_Date = FirstDay - 35
              /\ c.Age = AgeYears(OtherBirth, today)

\* C12: when load_stg or check_and_create_partition ends, by return or by
\* exception, it has closed every connection and cursor it got, and it ends
\* as its body decided: no error of the closing (or of the handler) stands
\* in for the original outcome.
C12_ResourcesReleased ==
    (last.op = "load_stg" \/ last.op = "partition") =>
        /\ last.open = {}
        /\ last.error = "none"

\* C13: a step that ends with incremental_load failed (its error gone to
\* the caller) leaves the committed curate rows as they were: none of the
\* rows its statement wrote stays.
C13_FailedMergeLeavesCurate ==
    [][(pc' = "idle" /\ last'.op = "incremental_load" /\ last'.ret = "raise")
          => curate' = curate]_vars

\* C13 witness: the statement has failed on a row without a curate
\* partition after it was handed another row, new to curate, that has one
C13_Witness ==
    /\ last.op = "incremental_load" /\ last.ret = "raise" /\ pc = "idle"
    /\ \E n \in cand : ~Accepts(parts["curate"], n.Country)
    /\ \E n \in cand :
          /\ Accepts(parts["curate"], n.Country)
          /\ \A c \in curate : ~SameKey(c, n)

\* C14: after extract has run on a file with no line that starts with "H|",
\* it has raised and handed back no batch, __main__ has ended, and nothing
\* has touched the database: no load_stg, no partition call, no merge.
C14_NoHeaderAbortsBeforeDatabase ==
    (step \notin {"off", "main"} /\ HeaderLines(file) = {}) =>
        /\ step = "aborted"
        /\ last.op = "extract" /\ last.ret = "raise"
        /\ data = NoData
        /\ loads = 0 /\ pc = "idle"
        /\ stg = <<>> /\ parts["stg"] = {} /\ cand = {}

\* C14 witness: extract has failed on a file of data rows and no header,
\* which it could open
C14_Witness ==
    /\ step = "aborted" /\ last.op = "extract" /\ last.fault = "none"
    /\ HeaderLines(file) = {} /\ DataLines(file) # {}

\* the rows of the frame are the "D|" lines of the file, one each and in
\* the file's order
RowsInFileOrder ==
    /\ Len(data.rows) = Cardinality(DataLines(file))
    /\ \A k \in DOMAIN data.rows :
          \A n \in DOMAIN Fields(file[DataLine(file, k)]) :
              /\ n <= Len(data.rows[k])
              /\ data.rows[k][n] = Fields(file[DataLine(file, k)])[n]

\* C15 as claimed: extract, able to read the file and to write its copy,
\* returns for every file with a line that starts with "H|" a batch with
\* one row per "D|" line, in the file's order, its columns the fields of an
\* "H|" line.
C15_EveryFileWithHeaderExtracts ==
    (last.op = "extract" /\ last.fault = "none" /\ HeaderLines(file) # {}) =>
        /\ last.ret = "ok"
        /\ RowsInFileOrder
        /\ \E i \in HeaderLines(file) : data.columns = Fields(file[i])

\* no "D|" line has more fields than the last "H|" line, and when there are
\* "D|" lines one of them has as many
RowsFitHeader(lines) ==
    /\ \A i \in DataLines(lines) :
          Len(Fields(lines[i])) <= Len(LastHeader(lines))
    /\ DataLines(lines) # {} =>
          \E i \in DataLines(lines) :
              Len(Fields(lines[i])) = Len(LastHeader(lines))

\* C15 amended: the same for every such file whose "D|" lines fit the last
\* "H|" line; the columns are the fields of that line, and a row of fewer
\* fields is filled up with None.
C15_FittingFileExtracts ==
    (last.op = "extract" /\ last.fault = "none" /\ HeaderLines(file) # {}
        /\ RowsFitHeader(file)) =>
        /\ last.ret = "ok"
        /\ RowsInFileOrder
        /\ data.columns = LastHeader(file)
        /\ \A k \in DOMAIN data.rows :
              /\ Len(data.rows[k]) = Len(data.columns)
              /\ \A n \in DOMAIN data.rows[k] :
                    n > Len(Fields(file[DataLine(file, k)]))
                        => data.rows[k][n] = None

\* C15 witness: a frame of one row from a file of two different headers
C15_Witness ==
    /\ last.op = "extract" /\ last.ret = "ok"
    /\ Cardinality(HeaderLines(file)) = 2 /\ Len(data.rows) = 1
    /\ \E i \in HeaderLines(file) : Fields(file[i]) # data.columns

\* no two rows of R have the same natural key (Customer_ID, Country)
UniqueKeys(R) == \A a, b \in R : SameKey(a, b) => a = b

\* C16: the curate table has at most one row per natural key, as committed
\* and as the merge statement leaves it in its transaction, and the rows a
\* merge statement hands to its INSERT are of different natural keys.
C16_OneRowPerNaturalKey ==
    /\ UniqueKeys(curate)
    /\ UniqueKeys(cand)
    /\ pc = "merged" => UniqueKeys(tx)

\* C16 witness: a merge statement has run on two eligible staged rows of
\* one natural key and different dates
C16_Witness ==
    /\ pc = "merged" /\ cand # {}
    /\ \E i, j \in DOMAIN stg :
          /\ i \in EligibleOf(stg[i].Customer_ID)
          /\ j \in EligibleOf(stg[j].Customer_ID)
          /\ SameKey(stg[i], stg[j])
          /\ stg[i].Last_Consulted_Date # stg[j].Last_Consulted_Date

\* C17: the Last_Consulted_Date of a curate row never moves back: not in
\* what a merge statement writes over the row, and not in what is
\* committed; and once an incremental_load that saw a later date for the
\* row's key has returned, the committed row carries that date.
C17_LastConsultedNeverMovesBack ==
    [][/\ (pc = "idle" /\ pc' = "merged") =>
              \A c \in curate : \A t \in tx' :
                  SameKey(t, c) => t.Last_Consulted_Date >= c.Last_Consulted_Date
       /\ \A c \in curate : \A d \in curate' :
              SameKey(d, c) => d.Last_Consulted_Date >= c.Last_Consulted_Date
       /\ (pc = "merged" /\ pc' = "idle") =>
              \A c \in curate : \A n \in cand :
                  (SameKey(n, c) /\ n.Last_Consulted_Date > c.Last_Consulted_Date)
                      => \E d \in curate' :
                            /\ SameKey(d, c)
                            /\ d.Last_Consulted_Date = n.Last_Consulted_Date
      ]_vars

\* C18: no partition named by the table name and an empty key exists, and
\* a load_stg that got through its partition loops had no row whose
\* country is None or blank: such a value is never handed to
\* check_and_create_partition.
C18_NoBlankCountryAtPartitionManager ==
    /\ \A s \in Schemas : ~HasRelation(parts[s], PartitionName(Table, <<>>))
    /\ (last.op = "load_stg" /\ last.reached) =>
          \A i \in DOMAIN BatchOf(data).rows :
              /\ BatchOf(data).rows[i].Country # None
              /\ Strip(BatchOf(data).rows[i].Country) # <<>>

====
